---- MODULE Spec2Model ----
(***************************************************************************)
(* A model of the Luma door unlocker: the session-aware check-in flow of   *)
(* LumaClient over the CredentialsManager file, and the QRScanner scan     *)
(* loop with its duplicate suppression and its start/stop threading.       *)
(***************************************************************************)
EXTENDS Integers, Sequences, FiniteSets, TLC

VARIABLES
    credentials_file,   \* content of credentials.json (CredentialsManager.credentials_path)
    flow_pc,            \* per caller: position inside LumaClient.handle_check_in_flow
    flow_result,        \* per caller: what the last handle_check_in_flow call produced
    calls,              \* per caller: history of the calls and requests of the current flow
    camera,             \* QRScanner.camera: 0 for None, else the VideoCapture it refers to
    opened,             \* per VideoCapture: whether it holds the device open
    handles,            \* how many VideoCapture objects have been created
    is_running,         \* QRScanner.is_running
    scan_thread,        \* QRScanner.scan_thread: "None" or a scan thread
    thread_state,       \* per scan thread: "new", "created", "started", "finished"
    last_detected_qr,   \* QRScanner.last_detected_qr
    last_detection_time,\* QRScanner.last_detection_time
    clock,              \* time.time(), in seconds
    pc,                 \* per thread: position inside the QRScanner method it executes
    exc,                \* per thread: the last exception raised in it
    frame_count,        \* per thread: start_scanning's local frame_count
    frame,              \* per thread: start_scanning's local frame, while it is in use
    loop_entered,       \* per thread: its last start_scanning call reached the scan loop
    cb_args,            \* per thread: the arguments of the last qr_callback invocation
    last_callback,      \* per payload: when qr_callback was last invoked with it, -1 if never
    parse_arg,          \* the text a direct caller hands to is_valid_luma_qr and extract_event_and_proxy_key
    parse_rets          \* what those direct calls have returned, each with its argument

flow_vars == <<credentials_file, flow_pc, flow_result, calls>>

scan_vars == <<camera, opened, handles, is_running, scan_thread, thread_state,
               last_detected_qr, last_detection_time, clock, pc, exc,
               frame_count, frame, loop_entered, cb_args, last_callback>>

parse_vars == <<parse_arg, parse_rets>>

vars == <<flow_vars, scan_vars, parse_vars>>

\* Application threads (the main thread and one more) call the scanner's
\* methods; scan threads are the ones start_scanning_async creates.
AppThreads == {"t1", "t2"}
ScanThreads == {"s1", "s2"}
Threads == AppThreads \cup ScanThreads

(***************************************************************************)
(* CredentialsManager (src/storage/credentials_manager.py)                 *)
(***************************************************************************)

\* The fields has_valid_credentials requires.
required_fields == {"auth_session_key", "user_id"}

\* Session keys: "k0" may be on disk at start, the service issues "k1", "k2".
\* The empty string stands for a falsy value (None, "" or null): the code
\* only ever tests the key's truthiness.
StoredKeys == {"", "k0"}
IssuedKeys == {"k1", "k2"}

\* A file that does not exist.
AbsentFile == [state |-> "absent", fields |-> {}, auth_session_key |-> ""]

\* A file that exists but cannot be parsed or read (json.load or open raises).
UnreadableFile == [state |-> "unreadable", fields |-> {}, auth_session_key |-> ""]

\* A file holding a JSON object with the given fields.
JsonFile(fields, key) ==
    [state |-> "json", fields |-> fields,
     auth_session_key |-> IF "auth_session_key" \in fields THEN key ELSE ""]

\* Every content the file can have when the program starts.
InitialFiles ==
    {AbsentFile, UnreadableFile}
        \cup {JsonFile(fs, k) : fs \in SUBSET required_fields, k \in StoredKeys}

\* load_credentials: None for a missing file, raises ValueError/RuntimeError
\* for an unreadable one, the dict otherwise.
load_credentials(file) ==
    [raised |-> file.state = "unreadable",
     none   |-> file.state = "absent",
     dict   |-> file]

\* get_auth_session_key: credentials.get("auth_session_key") if credentials
\* else None; the load's exception propagates.
get_auth_session_key(file) ==
    LET c == load_credentials(file) IN
    [raised |-> c.raised,
     key    |-> IF c.raised \/ c.none \/ c.dict.fields = {}
                THEN "" ELSE c.dict.auth_session_key]

\* has_valid_credentials: "if not credentials" is false for None and for the
\* empty dict; otherwise all required fields must be present.
has_valid_credentials(file) ==
    LET c == load_credentials(file) IN
    [raised |-> c.raised,
     value  |-> /\ ~c.raised
                /\ ~c.none
                /\ c.dict.fields # {}
                /\ required_fields \subseteq c.dict.fields]

\* What the disk does to one save: the write succeeds, open() fails (the
\* file is untouched), or the write fails after open(path, 'w') truncated it.
WriteOutcomes == {"ok", "open_error", "io_error"}

\* A save that reports success and writes nothing.
save_credentials_discarded(file, key, disk) ==
    [raised |-> FALSE, file |-> file]

\* save_credentials(auth_session_key, user_id = "", {"email": email}).
save_credentials(file, key, disk) ==
    [raised |-> disk # "ok",
     file   |-> CASE disk = "ok"         -> JsonFile(required_fields, key)
                  [] disk = "open_error" -> file
                  [] OTHER               -> UnreadableFile]

(***************************************************************************)
(* LumaClient (src/auth/luma_client.py)                                    *)
(***************************************************************************)

\* Answers of POST /auth/sign-in-with-password: a network exception, or a
\* status with the value of the luma.auth-session-key cookie ("" when the
\* cookie is absent or empty).
SignInResponses ==
    {[kind |-> "network_error", status |-> 0, cookie |-> ""]}
        \cup {[kind |-> "http", status |-> s, cookie |-> c] :
                s \in {200, 401, 500}, c \in IssuedKeys \cup {""}}

\* Answers of GET /event/admin/get-guest: a network exception, or a status
\* with a body. 300 is a redirection that requests does not follow (it has
\* no Location to go to) and hands back as the response.
GuestBodies == {"guest_new", "guest_checked_in", "empty", "unparseable"}

GetGuestResponses ==
    {[kind |-> "network_error", status |-> 0, body |-> "empty"]}
        \cup {[kind |-> "http", status |-> s, body |-> b] :
                s \in {200, 300, 401, 403, 404, 500}, b \in GuestBodies}

\* requests' raise_for_status raises for 4xx and 5xx.
raise_for_status(status) == status >= 400 /\ status < 600

\* _sign_in_with_password: the response, or None on any exception.
sign_in_with_password(resp) ==
    resp.kind = "http" /\ ~raise_for_status(resp.status)

\* _extract_auth_session_key: the cookie's value, None when not found.
extract_auth_session_key(resp) == resp.cookie

\* authenticate: sign in, extract the key, save it. Every exception,
\* save_credentials' RuntimeError included, is caught and gives False.
authenticate(file, resp, disk) ==
    LET key   == extract_auth_session_key(resp)
        saved == save_credentials(file, key, disk)
    IN  IF ~sign_in_with_password(resp)
        THEN [ok |-> FALSE, file |-> file, saved |-> FALSE]
        ELSE IF key = ""
        THEN [ok |-> FALSE, file |-> file, saved |-> FALSE]
        ELSE [ok |-> ~saved.raised, file |-> saved.file, saved |-> TRUE]

\* response.json() and the guest lookups succeed on a parseable object.
body_parses(body) == body \in {"guest_new", "guest_checked_in"}

\* check_in_to_event: sent is whether the get-guest request went out.
check_in_to_event(file, resp) ==
    LET k == get_auth_session_key(file) IN
    IF k.raised \/ k.key = ""
    THEN [ok |-> FALSE, sent |-> FALSE, key |-> ""]
    ELSE [ok   |-> /\ resp.kind = "http"
                   /\ resp.status # 401
                   /\ resp.status # 404
                   /\ ~raise_for_status(resp.status)
                   /\ body_parses(resp.body),
          sent |-> TRUE,
          key  |-> k.key]

\* A flow that tries the check-in whatever has_valid_credentials says.
after_has_valid_credentials_ignored(valid) == "check_in_cached"

\* handle_check_in_flow, line 226: where the flow goes after
\* has_valid_credentials.
after_has_valid_credentials(valid) ==
    IF valid THEN "check_in_cached" ELSE "authenticate"

\* A flow that re-authenticates whatever the cached check-in gave.
after_cached_check_in_refreshed(ok) == "authenticate"

\* handle_check_in_flow, lines 228-233: after the check-in with the cached
\* credential: return True, or fall through to authenticate.
after_cached_check_in(ok) ==
    IF ok THEN "return_true" ELSE "authenticate"

\* A flow that retries the check-in even after a failed authenticate.
after_authenticate_unchecked(ok) == "check_in_retry"

\* handle_check_in_flow, lines 233-239: after authenticate: return False, or
\* retry the check-in.
after_authenticate(ok) ==
    IF ok THEN "check_in_retry" ELSE "return_false"

\* A flow that drops the retry's result and reports failure.
after_retry_check_in_dropped(ok) == "return_false"

\* A flow that authenticates again when the retry fails.
after_retry_check_in_again(ok) ==
    IF ok THEN "return_true" ELSE "authenticate"

\* handle_check_in_flow, line 239: the retry's result is returned as it is.
after_retry_check_in(ok) ==
    IF ok THEN "return_true" ELSE "return_false"

\* One entry of a flow's history: the call or request made, whether it
\* succeeded, the session key it read, extracted or presented, the HTTP
\* status answered (0 when there is none) and a detail: the state of the
\* file for has_valid_credentials, the body or "network_error" for a request.
Entry(op, ok, key, status, detail) ==
    [op |-> op, ok |-> ok, key |-> key, status |-> status, detail |-> detail]

\* The history entries of one check_in_to_event call.
CheckInEntries(r, resp) ==
    IF r.sent
    THEN <<Entry("get_guest", r.ok, r.key, resp.status,
                 IF resp.kind = "http" THEN resp.body ELSE resp.kind),
           Entry("check_in_to_event", r.ok, r.key, 0, "")>>
    ELSE <<Entry("check_in_to_event", r.ok, r.key, 0, "")>>

\* The flow moves to position p; the two return positions end it.
Goto(t, p) ==
    CASE p = "return_true" ->
            /\ flow_pc' = [flow_pc EXCEPT ![t] = "done"]
            /\ flow_result' = [flow_result EXCEPT ![t] = "True"]
      [] p = "return_false" ->
            /\ flow_pc' = [flow_pc EXCEPT ![t] = "done"]
            /\ flow_result' = [flow_result EXCEPT ![t] = "False"]
      [] OTHER ->
            /\ flow_pc' = [flow_pc EXCEPT ![t] = p]
            /\ UNCHANGED flow_result

\* handle_check_in_flow is entered: has_valid_credentials is evaluated; its
\* exception is not caught and leaves the flow.
FlowHasValid(t) ==
    /\ flow_pc[t] = "entry"
    /\ LET v == has_valid_credentials(credentials_file) IN
        IF v.raised
        THEN /\ flow_pc' = [flow_pc EXCEPT ![t] = "done"]
             /\ flow_result' = [flow_result EXCEPT ![t] = "raised"]
        ELSE Goto(t, after_has_valid_credentials(v.value))
    /\ calls' = [calls EXCEPT ![t] = @ \o
            <<Entry("has_valid_credentials", has_valid_credentials(credentials_file).value,
                    credentials_file.auth_session_key, 0, credentials_file.state)>>]
    /\ UNCHANGED <<credentials_file, scan_vars>>
    /\ UNCHANGED parse_vars

\* The check-in with the cached credential, answered by one of responses.
FlowCheckInCached(t, responses) ==
    /\ flow_pc[t] = "check_in_cached"
    /\ \E resp \in responses :
        LET r == check_in_to_event(credentials_file, resp) IN
        /\ calls' = [calls EXCEPT ![t] = @ \o CheckInEntries(r, resp)]
        /\ Goto(t, after_cached_check_in(r.ok))
    /\ UNCHANGED <<credentials_file, scan_vars>>
    /\ UNCHANGED parse_vars

\* The re-authentication, answered by one of responses, with the disk
\* behaving as one of disks.
FlowAuthenticate(t, responses, disks) ==
    /\ flow_pc[t] = "authenticate"
    /\ \E resp \in responses, disk \in disks :
        LET a == authenticate(credentials_file, resp, disk) IN
        /\ credentials_file' = a.file
        /\ calls' = [calls EXCEPT ![t] = @ \o
                <<Entry("sign_in", sign_in_with_password(resp), "", resp.status,
                        IF resp.kind = "http" THEN "" ELSE resp.kind),
                  Entry("authenticate", a.ok, extract_auth_session_key(resp), 0,
                        IF a.saved THEN disk ELSE "")>>]
        /\ Goto(t, after_authenticate(a.ok))
    /\ UNCHANGED scan_vars
    /\ UNCHANGED parse_vars

\* The check-in after a successful authenticate.
FlowCheckInRetry(t, responses) ==
    /\ flow_pc[t] = "check_in_retry"
    /\ \E resp \in responses :
        LET r == check_in_to_event(credentials_file, resp) IN
        /\ calls' = [calls EXCEPT ![t] = @ \o CheckInEntries(r, resp)]
        /\ Goto(t, after_retry_check_in(r.ok))
    /\ UNCHANGED <<credentials_file, scan_vars>>
    /\ UNCHANGED parse_vars

\* One step of handle_check_in_flow against any behaviour of the remote
\* service and of the disk.
FlowStep(t) ==
    \/ FlowHasValid(t)
    \/ FlowCheckInCached(t, GetGuestResponses)
    \/ FlowAuthenticate(t, SignInResponses, WriteOutcomes)
    \/ FlowCheckInRetry(t, GetGuestResponses)

\* A caller invokes handle_check_in_flow directly.
DirectCall(t) ==
    /\ flow_pc[t] = "idle"
    /\ flow_pc' = [flow_pc EXCEPT ![t] = "entry"]
    /\ flow_result' = [flow_result EXCEPT ![t] = "none"]
    /\ calls' = [calls EXCEPT ![t] = <<>>]
    /\ UNCHANGED <<credentials_file, scan_vars>>
    /\ UNCHANGED parse_vars

\* The call has returned (or raised) to the direct caller.
DirectReturn(t) ==
    /\ flow_pc[t] = "done"
    /\ flow_pc' = [flow_pc EXCEPT ![t] = "idle"]
    /\ UNCHANGED <<credentials_file, flow_result, calls, scan_vars>>
    /\ UNCHANGED parse_vars

\* LumaClient.__init__ and the credentials file it finds.
ClientInit ==
    /\ flow_pc = [t \in Threads |-> "idle"]
    /\ flow_result = [t \in Threads |-> "none"]
    /\ calls = [t \in Threads |-> <<>>]

(***************************************************************************)
(* Texts: a Python str is a sequence of one-character strings.             *)
(***************************************************************************)

\* str.startswith
StartsWith(s, prefix) ==
    /\ Len(s) >= Len(prefix)
    /\ SubSeq(s, 1, Len(prefix)) = prefix

\* The places where sub occurs in s.
Occurrences(s, sub) ==
    {i \in 1..(Len(s) - Len(sub) + 1) : SubSeq(s, i, i + Len(sub) - 1) = sub}

\* "sub in s"
Contains(s, sub) == Occurrences(s, sub) # {}

\* The least element of a non-empty set of numbers.
Least(S) == CHOOSE i \in S : \A j \in S : i <= j

\* s.split(sep)[0]: s up to the first sep, all of s when there is none.
SplitHead(s, sep) ==
    IF Contains(s, sep) THEN SubSeq(s, 1, Least(Occurrences(s, sep)) - 1) ELSE s

\* s.split(sep, 1)[1]: s after the first sep (sep must occur).
SplitTail(s, sep) ==
    SubSeq(s, Least(Occurrences(s, sep)) + Len(sep), Len(s))

\* s.split(sep)[1]: what stands between the first sep and the next one.
SplitSecond(s, sep) == SplitHead(SplitTail(s, sep), sep)

\* qr_config's url_pattern, "https://lu.ma/check-in/".
url_pattern ==
    <<"h", "t", "t", "p", "s", ":", "/", "/", "l", "u", ".", "m", "a", "/",
      "c", "h", "e", "c", "k", "-", "i", "n", "/">>

PkSep == <<"?", "p", "k", "=">>
EvtPrefix == <<"e", "v", "t", "-">>
GPrefix == <<"g", "-">>
\* "&", at which the query parameters are split.
Amp == <<"&">>

(***************************************************************************)
(* QRScanner: payload validation and parsing (src/camera/qr_scanner.py)    *)
(***************************************************************************)

\* The query parameters taken whole.
whole_query(query_params) == query_params

\* split("&")[0], lines 228 and 266: the first of the query parameters.
first_param(query_params) == SplitHead(query_params, Amp)

\* A validation that stops after the two basic format checks.
is_valid_luma_qr_basic(qr_data) ==
    /\ StartsWith(qr_data, url_pattern)
    /\ Contains(qr_data, PkSep)

\* is_valid_luma_qr. remaining.split("?pk=")[1] raises IndexError when
\* "?pk=" is not in remaining; the exception is caught and gives False.
is_valid_luma_qr(qr_data) ==
    LET remaining == SubSeq(qr_data, Len(url_pattern) + 1, Len(qr_data)) IN
    /\ StartsWith(qr_data, url_pattern)
    /\ Contains(qr_data, PkSep)
    /\ remaining # <<>>
    /\ StartsWith(SplitHead(remaining, PkSep), EvtPrefix)
    /\ Contains(remaining, PkSep)
    /\ StartsWith(first_param(SplitSecond(remaining, PkSep)), GPrefix)

\* A parse that does not look at how the text begins.
extract_event_and_proxy_key_any_prefix(qr_data) ==
    LET remaining == SubSeq(qr_data, Len(url_pattern) + 1, Len(qr_data)) IN
    IF ~Contains(remaining, PkSep)
    THEN [ok |-> FALSE, event_id |-> <<>>, proxy_key |-> <<>>]
    ELSE [ok        |-> TRUE,
          event_id  |-> SplitHead(remaining, PkSep),
          proxy_key |-> first_param(SplitTail(remaining, PkSep))]

\* extract_event_and_proxy_key: (None, None) is ok = FALSE.
extract_event_and_proxy_key(qr_data) ==
    LET remaining == SubSeq(qr_data, Len(url_pattern) + 1, Len(qr_data)) IN
    IF ~StartsWith(qr_data, url_pattern) \/ ~Contains(remaining, PkSep)
    THEN [ok |-> FALSE, event_id |-> <<>>, proxy_key |-> <<>>]
    ELSE [ok        |-> TRUE,
          event_id  |-> SplitHead(remaining, PkSep),
          proxy_key |-> first_param(SplitTail(remaining, PkSep))]

(***************************************************************************)
(* QRScanner: duplicate suppression and decoding                           *)
(***************************************************************************)

\* last_detected_qr before any detection.
NoneText == <<"None">>

\* duplicate_threshold, in seconds.
DuplicateThreshold == 2

\* camera_config's frame_skip.
frame_skip == 2

\* The clock runs from 0 to MaxTime.
MaxTime == 3

\* A run of start_scanning reads at most MaxFrames frames successfully.
MaxFrames == 9

\* At most MaxStarts calls of start_scanning are made.
MaxStarts == 2

\* A frame's decodings are listed variant by variant up to the last variant
\* that detects something or fails, at most MaxVariants of them
\* (preprocess_frame makes six, or one when it falls back).
MaxVariants == 2

\* Payloads shown to the camera: two Luma check-in codes and another code.
LumaA ==
    url_pattern \o <<"e", "v", "t", "-", "A", "?", "p", "k", "=", "g", "-", "A">>
LumaB ==
    url_pattern \o <<"e", "v", "t", "-", "B", "?", "p", "k", "=", "g", "-", "B">>
OtherText == <<"x">>

Payloads == {LumaA, LumaB, OtherText}

\* A decoded symbol: its bytes decode as UTF-8 to text, or do not.
Code(text) == [utf8 |-> TRUE, text |-> text]
BadCode == [utf8 |-> FALSE, text |-> <<>>]

\* What pyzbar.decode finds in one variant: symbols in its order.
CodeLists ==
    {<<>>, <<Code(LumaA)>>, <<Code(LumaB)>>, <<Code(OtherText)>>,
     <<Code(LumaA), Code(OtherText)>>, <<BadCode, Code(LumaA)>>}

\* One variant: pyzbar.decode raises, or returns a list of symbols.
VariantResults ==
    {[raises |-> TRUE, codes |-> <<>>]}
        \cup {[raises |-> FALSE, codes |-> cs] : cs \in CodeLists}

VariantSeqs == UNION {[1..n -> VariantResults] : n \in 0..MaxVariants}

\* The frames camera.read() gives: an empty frame, or a frame with its
\* decodings. NoFrame is the local variable outside its use.
NoFrame == [size |-> -1, variants |-> <<>>]
EmptyFrame == [size |-> 0, variants |-> <<>>]
ScanFrames ==
    {EmptyFrame} \cup {[size |-> 1, variants |-> vs] : vs \in VariantSeqs}

\* is_valid_luma_qr and extract_event_and_proxy_key on the texts that occur.
ValidLuma == {p \in Payloads : is_valid_luma_qr(p)}
Extracted == [p \in Payloads \cup {NoneText} |-> extract_event_and_proxy_key(p)]

\* A duplicate test that also suppresses a detection made exactly
\* duplicate_threshold after the last one.
is_duplicate_inclusive(qr_data, last_qr, last_time, now) ==
    last_qr = qr_data /\ now - last_time <= DuplicateThreshold

\* scan_qr_code, lines 159-160: the duplicate test.
is_duplicate(qr_data, last_qr, last_time, now) ==
    last_qr = qr_data /\ now - last_time < DuplicateThreshold

\* A suppression that restarts the duplicate window.
after_duplicate_extended(last_time, now) == now

\* scan_qr_code, lines 161-162: a suppressed detection leaves
\* last_detection_time as it is.
after_duplicate(last_time, now) == last_time

\* scan_qr_code, lines 152-182: the symbols of one variant, from the i-th on.
RECURSIVE scan_codes(_, _, _, _, _)
scan_codes(codes, i, last_qr, last_time, now) ==
    IF i > Len(codes)
    THEN [found |-> FALSE, qr_data |-> NoneText,
          last_qr |-> last_qr, last_time |-> last_time]
    ELSE IF ~codes[i].utf8
    THEN scan_codes(codes, i + 1, last_qr, last_time, now)
    ELSE IF is_duplicate(codes[i].text, last_qr, last_time, now)
    THEN scan_codes(codes, i + 1, last_qr, after_duplicate(last_time, now), now)
    ELSE IF codes[i].text \in ValidLuma
    THEN [found |-> TRUE, qr_data |-> codes[i].text,
          last_qr |-> codes[i].text, last_time |-> now]
    ELSE scan_codes(codes, i + 1, codes[i].text, now, now)

\* scan_qr_code, lines 144-188: the variants in order, from the i-th on; a
\* variant whose detections are all passed over is followed by the next.
RECURSIVE scan_variants(_, _, _, _, _)
scan_variants(variants, i, last_qr, last_time, now) ==
    IF i > Len(variants)
    THEN [found |-> FALSE, qr_data |-> NoneText,
          last_qr |-> last_qr, last_time |-> last_time]
    ELSE IF variants[i].raises
    THEN scan_variants(variants, i + 1, last_qr, last_time, now)
    ELSE LET r == scan_codes(variants[i].codes, 1, last_qr, last_time, now) IN
         IF r.found THEN r
         ELSE scan_variants(variants, i + 1, r.last_qr, r.last_time, now)

\* scan_qr_code(frame) with the scanner's duplicate state and the time.
scan_qr_code(f, last_qr, last_time, now) ==
    scan_variants(f.variants, 1, last_qr, last_time, now)

(***************************************************************************)
(* QRScanner: start_scanning, start_scanning_async, stop_scanning          *)
(***************************************************************************)

\* The VideoCapture objects that can be created.
Handles == 1..(MaxStarts + 1)

\* No qr_callback invocation yet.
NoArgs == [qr_data |-> NoneText, event_id |-> <<>>, proxy_key |-> <<>>]

\* QRScanner.__init__, with the clock at 0.
ScannerInit ==
    /\ camera = 0
    /\ opened = [h \in Handles |-> FALSE]
    /\ handles = 0
    /\ is_running = FALSE
    /\ scan_thread = "None"
    /\ thread_state = [s \in ScanThreads |-> "new"]
    /\ last_detected_qr = NoneText
    /\ last_detection_time = 0
    /\ clock = 0
    /\ pc = [t \in Threads |-> "idle"]
    /\ exc = [t \in Threads |-> "none"]
    /\ frame_count = [t \in Threads |-> 0]
    /\ frame = [t \in Threads |-> NoFrame]
    /\ loop_entered = [t \in Threads |-> FALSE]
    /\ cb_args = [t \in Threads |-> NoArgs]
    /\ last_callback = [p \in Payloads |-> -1]

\* The positions of start_scanning, its finally clause excluded.
StartPcs ==
    {"init_open", "init_check", "init_test", "set_running", "while", "read",
     "process", "in_callback", "finally"}

\* The positions of stop_scanning.
StopPcs == {"stop_flag", "stop_check", "stop_release", "stop_clear"}

\* The positions of start_scanning_async.
AsyncPcs == {"async_check", "async_create", "async_start"}

\* How many calls of start_scanning have been made or are being set up.
Starts == handles + Cardinality({t \in Threads : pc[t] \in AsyncPcs \cup {"init_open"}})

\* The positions of start_scanning inside its try block.
TryPcs == {"while", "read", "process", "in_callback"}

\* The method thread t executes returns; a scan thread ends with it. When
\* it is the signal handler's stop_scanning that returns, sys.exit raises
\* SystemExit at the interrupted statement: inside the try block that leads
\* to the finally clause, elsewhere out of the scanner.
Return(t) ==
    /\ pc' = [pc EXCEPT ![t] =
                IF exc[t] = "SystemExit_in_try" THEN "finally" ELSE "idle"]
    /\ thread_state' = IF t \in ScanThreads
                       THEN [thread_state EXCEPT ![t] = "finished"]
                       ELSE thread_state

\* Thread t moves to position p of the method it executes.
Step(t, p) ==
    /\ pc' = [pc EXCEPT ![t] = p]
    /\ UNCHANGED thread_state

\* VideoCapture h loses its last reference or is released.
Released(h, o) == IF h = 0 THEN o ELSE [o EXCEPT ![h] = FALSE]

\* An application thread calls start_scanning.
CallStartScanning(t) ==
    /\ t \in AppThreads
    /\ pc[t] = "idle"
    /\ Starts < MaxStarts
    /\ Step(t, "init_open")
    /\ loop_entered' = [loop_entered EXCEPT ![t] = FALSE]
    /\ UNCHANGED <<flow_vars, camera, opened, handles, is_running, scan_thread,
                   last_detected_qr, last_detection_time, clock, exc,
                   frame_count, frame, cb_args, last_callback>>
    /\ UNCHANGED parse_vars

\* initialize_camera, lines 39-47: self.camera becomes a new VideoCapture,
\* opened by one of the backends or by none. The VideoCapture it replaces
\* is unreferenced and releases its device.
InitOpen(t) ==
    /\ pc[t] = "init_open"
    /\ handles + 1 \in Handles
    /\ \E ok \in BOOLEAN :
        opened' = [Released(camera, opened) EXCEPT ![handles + 1] = ok]
    /\ camera' = handles + 1
    /\ handles' = handles + 1
    /\ Step(t, "init_check")
    /\ UNCHANGED <<flow_vars, is_running, scan_thread,
                   last_detected_qr, last_detection_time, clock, exc,
                   frame_count, frame, loop_entered, cb_args, last_callback>>
    /\ UNCHANGED parse_vars

\* A check that takes every camera for opened.
isOpened_assumed(cam, op) == TRUE

\* initialize_camera, line 49: self.camera and self.camera.isOpened().
isOpened(cam, op) == cam # 0 /\ op[cam]

\* initialize_camera, lines 49-51, and start_scanning, lines 282-284: with
\* no camera, or one that is not open, start_scanning returns.
InitCheck(t) ==
    /\ pc[t] = "init_check"
    /\ IF ~isOpened(camera, opened)
       THEN Return(t)
       ELSE Step(t, "init_test")
    /\ UNCHANGED <<flow_vars, camera, opened, handles, is_running, scan_thread,
                   last_detected_qr, last_detection_time, clock, exc,
                   frame_count, frame, loop_entered, cb_args, last_callback>>
    /\ UNCHANGED parse_vars

\* initialize_camera, lines 53-82: the camera is configured and a test
\* frame is read. On a camera that is None the AttributeError is caught; a
\* failed test read returns False with self.camera left as it is.
InitTest(t) ==
    /\ pc[t] = "init_test"
    /\ IF camera = 0
       THEN /\ exc' = [exc EXCEPT ![t] = "AttributeError_caught"]
            /\ Return(t)
       ELSE /\ UNCHANGED exc
            /\ IF ~opened[camera]
               THEN Return(t)
               ELSE \E ok \in BOOLEAN :
                        IF ok THEN Step(t, "set_running") ELSE Return(t)
    /\ UNCHANGED <<flow_vars, camera, opened, handles, is_running, scan_thread,
                   last_detected_qr, last_detection_time, clock,
                   frame_count, frame, loop_entered, cb_args, last_callback>>
    /\ UNCHANGED parse_vars

\* start_scanning, lines 286-294.
SetRunning(t) ==
    /\ pc[t] = "set_running"
    /\ is_running' = TRUE
    /\ frame_count' = [frame_count EXCEPT ![t] = 0]
    /\ loop_entered' = [loop_entered EXCEPT ![t] = TRUE]
    /\ Step(t, "while")
    /\ UNCHANGED <<flow_vars, camera, opened, handles, scan_thread,
                   last_detected_qr, last_detection_time, clock, exc,
                   frame, cb_args, last_callback>>
    /\ UNCHANGED parse_vars

\* start_scanning, line 297: the loop condition.
While(t) ==
    /\ pc[t] = "while"
    /\ Step(t, IF is_running THEN "read" ELSE "finally")
    /\ UNCHANGED <<flow_vars, camera, opened, handles, is_running, scan_thread,
                   last_detected_qr, last_detection_time, clock, exc,
                   frame_count, frame, loop_entered, cb_args, last_callback>>
    /\ UNCHANGED parse_vars

\* A skip test that lets every frame_skip-th frame through.
skips_all_but_nth(count) == count % frame_skip # 0

\* start_scanning, line 308: whether the frame counted as count is skipped.
skips(count) == count % (frame_skip + 1) # 0

\* A failed read that ends the loop.
after_failed_read_ends == "finally"

\* start_scanning, lines 300-303: after a read that gave no frame the loop
\* continues with its condition.
after_failed_read == "while"

\* start_scanning, lines 298-309: a frame is read, the camera answering
\* with one of rets and one of frames. self.camera.read() on None raises
\* AttributeError, caught at line 334; a released VideoCapture gives no
\* frame; a frame that is read is counted and may be skipped.
ReadFrame(t, rets, frames) ==
    /\ pc[t] = "read"
    /\ IF camera = 0
       THEN /\ exc' = [exc EXCEPT ![t] = "AttributeError_caught"]
            /\ Step(t, "finally")
            /\ UNCHANGED <<frame_count, frame>>
       ELSE \E ret \in rets :
            IF ~opened[camera] \/ ~ret
            THEN /\ Step(t, after_failed_read)
                 /\ UNCHANGED <<exc, frame_count, frame>>
            ELSE /\ frame_count[t] < MaxFrames
                 /\ frame_count' = [frame_count EXCEPT ![t] = @ + 1]
                 /\ UNCHANGED exc
                 /\ IF skips(frame_count[t] + 1)
                    THEN /\ Step(t, "while")
                         /\ UNCHANGED frame
                    ELSE /\ Step(t, "process")
                         /\ \E f \in frames : frame' = [frame EXCEPT ![t] = f]
    /\ UNCHANGED <<flow_vars, camera, opened, handles, is_running, scan_thread,
                   last_detected_qr, last_detection_time, clock,
                   loop_entered, cb_args, last_callback>>
    /\ UNCHANGED parse_vars

\* start_scanning, lines 311-330: the frame that was read is scanned and a
\* valid payload that parses is handed to qr_callback.
ProcessFrame(t) ==
    /\ pc[t] = "process"
    /\ frame' = [frame EXCEPT ![t] = NoFrame]
    /\ IF frame[t].size = 0
       THEN /\ Step(t, "while")
            /\ UNCHANGED <<flow_vars, last_detected_qr, last_detection_time,
                           cb_args, last_callback>>
       ELSE LET r == scan_qr_code(frame[t], last_detected_qr,
                                  last_detection_time, clock)
                e == Extracted[r.qr_data]
            IN  /\ last_detected_qr' = r.last_qr
                /\ last_detection_time' = r.last_time
                /\ IF r.found /\ e.ok /\ e.event_id # <<>> /\ e.proxy_key # <<>>
                   THEN /\ cb_args' = [cb_args EXCEPT ![t] =
                                [qr_data |-> r.qr_data, event_id |-> e.event_id,
                                 proxy_key |-> e.proxy_key]]
                        /\ last_callback' =
                                [last_callback EXCEPT ![r.qr_data] = clock]
                        /\ flow_pc' = [flow_pc EXCEPT ![t] = "entry"]
                        /\ flow_result' = [flow_result EXCEPT ![t] = "none"]
                        /\ calls' = [calls EXCEPT ![t] = <<>>]
                        /\ UNCHANGED credentials_file
                        /\ Step(t, "in_callback")
                   ELSE /\ Step(t, "while")
                        /\ UNCHANGED <<flow_vars, cb_args, last_callback>>
    /\ UNCHANGED <<camera, opened, handles, is_running, scan_thread, clock,
                   exc, frame_count, loop_entered>>
    /\ UNCHANGED parse_vars

\* handle_qr_detection returns to the loop, or the exception of
\* handle_check_in_flow passes through it and is caught at line 334.
CallbackReturn(t) ==
    /\ pc[t] = "in_callback"
    /\ flow_pc[t] = "done"
    /\ flow_pc' = [flow_pc EXCEPT ![t] = "idle"]
    /\ calls' = [calls EXCEPT ![t] = <<>>]
    /\ IF flow_result[t] = "raised"
       THEN /\ exc' = [exc EXCEPT ![t] = "ValueError_caught"]
            /\ Step(t, "finally")
       ELSE /\ UNCHANGED exc
            /\ Step(t, "while")
    /\ UNCHANGED <<credentials_file, flow_result, camera, opened, handles,
                   is_running, scan_thread, last_detected_qr,
                   last_detection_time, clock, frame_count, frame,
                   loop_entered, cb_args, last_callback>>
    /\ UNCHANGED parse_vars

\* A finally clause that returns without stopping the scanner.
finally_clause_skipped == "idle"

\* start_scanning, lines 336-338: where the finally clause leads, to
\* stop_scanning.
finally_clause == "stop_flag"

\* start_scanning, lines 336-338: the finally clause calls stop_scanning.
\* A SystemExit that brought the thread here goes on once it is done.
Finally(t) ==
    /\ pc[t] = "finally"
    /\ Step(t, finally_clause)
    /\ exc' = IF exc[t] = "SystemExit_in_try"
              THEN [exc EXCEPT ![t] = "SystemExit"]
              ELSE exc
    /\ UNCHANGED <<flow_vars, camera, opened, handles, is_running, scan_thread,
                   last_detected_qr, last_detection_time, clock,
                   frame_count, frame, loop_entered, cb_args, last_callback>>
    /\ UNCHANGED parse_vars

\* An application thread calls stop_scanning.
CallStop(t) ==
    /\ t \in AppThreads
    /\ pc[t] = "idle"
    /\ Step(t, "stop_flag")
    /\ UNCHANGED <<flow_vars, camera, opened, handles, is_running, scan_thread,
                   last_detected_qr, last_detection_time, clock, exc,
                   frame_count, frame, loop_entered, cb_args, last_callback>>
    /\ UNCHANGED parse_vars

\* stop_scanning, line 359.
StopFlag(t) ==
    /\ pc[t] = "stop_flag"
    /\ is_running' = FALSE
    /\ Step(t, "stop_check")
    /\ UNCHANGED <<flow_vars, camera, opened, handles, scan_thread,
                   last_detected_qr, last_detection_time, clock, exc,
                   frame_count, frame, loop_entered, cb_args, last_callback>>
    /\ UNCHANGED parse_vars

\* A stop_scanning that releases the camera without looking at it.
has_camera_unchecked(cam) == TRUE

\* stop_scanning, line 361: "if self.camera".
has_camera(cam) == cam # 0

\* stop_scanning, line 361: with no camera it goes on to line 365 and
\* returns.
StopCheck(t) ==
    /\ pc[t] = "stop_check"
    /\ IF has_camera(camera) THEN Step(t, "stop_release") ELSE Return(t)
    /\ UNCHANGED <<flow_vars, camera, opened, handles, is_running, scan_thread,
                   last_detected_qr, last_detection_time, clock, exc,
                   frame_count, frame, loop_entered, cb_args, last_callback>>
    /\ UNCHANGED parse_vars

\* stop_scanning, line 362: self.camera is read again; on None the
\* AttributeError leaves stop_scanning and its caller.
StopRelease(t) ==
    /\ pc[t] = "stop_release"
    /\ IF camera = 0
       THEN /\ exc' = [exc EXCEPT ![t] = "AttributeError_uncaught"]
            /\ Return(t)
            /\ UNCHANGED opened
       ELSE /\ opened' = Released(camera, opened)
            /\ Step(t, "stop_clear")
            /\ UNCHANGED exc
    /\ UNCHANGED <<flow_vars, camera, handles, is_running, scan_thread,
                   last_detected_qr, last_detection_time, clock,
                   frame_count, frame, loop_entered, cb_args, last_callback>>
    /\ UNCHANGED parse_vars

\* stop_scanning, lines 363-366: the VideoCapture that self.camera refers
\* to now is unreferenced, and stop_scanning returns.
StopClear(t) ==
    /\ pc[t] = "stop_clear"
    /\ opened' = Released(camera, opened)
    /\ camera' = 0
    /\ Return(t)
    /\ UNCHANGED <<flow_vars, handles, is_running, scan_thread,
                   last_detected_qr, last_detection_time, clock, exc,
                   frame_count, frame, loop_entered, cb_args, last_callback>>
    /\ UNCHANGED parse_vars

\* The exception that arrives in thread t ends the check-in flow its
\* callback is running, and start_scanning's local frame is gone.
Unwind(t) ==
    /\ flow_pc' = [flow_pc EXCEPT ![t] = "idle"]
    /\ flow_result' = IF flow_pc[t] = "idle"
                      THEN flow_result
                      ELSE [flow_result EXCEPT ![t] = "raised"]
    /\ calls' = [calls EXCEPT ![t] = <<>>]
    /\ frame' = [frame EXCEPT ![t] = NoFrame]
    /\ UNCHANGED credentials_file
    /\ UNCHANGED parse_vars

\* main.py, lines 64-67: SIGINT or SIGTERM reaches the main thread while it
\* is inside start_scanning (the handlers are installed by start). The
\* handler calls stop, that is stop_scanning, and then sys.exit; the
\* statement it interrupted is not resumed.
Signal(t) ==
    /\ t \in AppThreads
    /\ pc[t] # "idle"
    /\ exc[t] \notin {"KeyboardInterrupt_caught", "KeyboardInterrupt_uncaught"}
    /\ exc' = [exc EXCEPT ![t] =
                IF pc[t] \in TryPcs \/ exc[t] = "SystemExit_in_try"
                THEN "SystemExit_in_try"
                ELSE "SystemExit"]
    /\ Step(t, "stop_flag")
    /\ Unwind(t)
    /\ UNCHANGED <<camera, opened, handles, is_running, scan_thread,
                   last_detected_qr, last_detection_time, clock,
                   frame_count, loop_entered, cb_args, last_callback>>
    /\ UNCHANGED parse_vars

\* Without the handlers of main.py, Ctrl-C raises KeyboardInterrupt in the
\* main thread: inside the try block it is caught at line 332, before the
\* try block it leaves start_scanning.
KeyboardInterrupt(t) ==
    /\ t \in AppThreads
    /\ pc[t] \in StartPcs \ {"finally"}
    /\ exc[t] = "none"
    /\ IF pc[t] \in TryPcs
       THEN /\ exc' = [exc EXCEPT ![t] = "KeyboardInterrupt_caught"]
            /\ Step(t, "finally")
       ELSE /\ exc' = [exc EXCEPT ![t] = "KeyboardInterrupt_uncaught"]
            /\ Return(t)
    /\ Unwind(t)
    /\ UNCHANGED <<camera, opened, handles, is_running, scan_thread,
                   last_detected_qr, last_detection_time, clock,
                   frame_count, loop_entered, cb_args, last_callback>>
    /\ UNCHANGED parse_vars

\* An application thread calls start_scanning_async.
CallStartAsync(t) ==
    /\ t \in AppThreads
    /\ pc[t] = "idle"
    /\ Starts < MaxStarts
    /\ Cardinality({s \in ScanThreads : thread_state[s] = "new"})
            > Cardinality({u \in Threads : pc[u] \in {"async_check", "async_create"}})
    /\ Step(t, "async_check")
    /\ UNCHANGED <<flow_vars, camera, opened, handles, is_running, scan_thread,
                   last_detected_qr, last_detection_time, clock, exc,
                   frame_count, frame, loop_entered, cb_args, last_callback>>
    /\ UNCHANGED parse_vars

\* Thread.is_alive: started and not yet finished.
is_alive(s) == thread_state[s] = "started"

\* start_scanning_async, lines 346-348: with a live scan thread it warns
\* and returns.
AsyncCheck(t) ==
    /\ pc[t] = "async_check"
    /\ IF scan_thread # "None" /\ is_alive(scan_thread)
       THEN Return(t)
       ELSE Step(t, "async_create")
    /\ UNCHANGED <<flow_vars, camera, opened, handles, is_running, scan_thread,
                   last_detected_qr, last_detection_time, clock, exc,
                   frame_count, frame, loop_entered, cb_args, last_callback>>
    /\ UNCHANGED parse_vars

\* start_scanning_async, lines 350-354: self.scan_thread becomes a new
\* Thread.
AsyncCreate(t) ==
    /\ pc[t] = "async_create"
    /\ LET s == IF thread_state["s1"] = "new" THEN "s1" ELSE "s2" IN
        /\ thread_state[s] = "new"
        /\ thread_state' = [thread_state EXCEPT ![s] = "created"]
        /\ scan_thread' = s
    /\ pc' = [pc EXCEPT ![t] = "async_start"]
    /\ UNCHANGED <<flow_vars, camera, opened, handles, is_running,
                   last_detected_qr, last_detection_time, clock, exc,
                   frame_count, frame, loop_entered, cb_args, last_callback>>
    /\ UNCHANGED parse_vars

\* start_scanning_async, line 355: self.scan_thread is read again and
\* started; the thread begins start_scanning. Starting a thread a second
\* time raises RuntimeError.
AsyncStart(t) ==
    /\ pc[t] = "async_start"
    /\ IF thread_state[scan_thread] = "created"
       THEN /\ thread_state' = [thread_state EXCEPT ![scan_thread] = "started"]
            /\ pc' = [pc EXCEPT ![t] = "idle", ![scan_thread] = "init_open"]
            /\ UNCHANGED exc
       ELSE /\ exc' = [exc EXCEPT ![t] = "RuntimeError_uncaught"]
            /\ pc' = [pc EXCEPT ![t] = "idle"]
            /\ UNCHANGED thread_state
    /\ UNCHANGED <<flow_vars, camera, opened, handles, is_running, scan_thread,
                   last_detected_qr, last_detection_time, clock,
                   frame_count, frame, loop_entered, cb_args, last_callback>>
    /\ UNCHANGED parse_vars

\* Time passes.
Tick ==
    /\ clock < MaxTime
    /\ clock' = clock + 1
    /\ UNCHANGED <<flow_vars, camera, opened, handles, is_running, scan_thread,
                   thread_state, last_detected_qr, last_detection_time, pc,
                   exc, frame_count, frame, loop_entered, cb_args, last_callback>>
    /\ UNCHANGED parse_vars

(***************************************************************************)
(* Direct calls of is_valid_luma_qr and extract_event_and_proxy_key        *)
(***************************************************************************)

\* A direct caller appends at most MaxParams query parameters to its text.
MaxParams == 1

\* The parts the texts of the direct calls are made of: what stands for the
\* URL prefix, for the event id, for "?pk=", and for the proxy key. Some
\* parts are percent-encoded ("%2D" for "-", "%3F" for "?", "%3D" for "=").
PrefixParts ==
    {url_pattern,
     <<"h", "t", "t", "p", ":", "/", "/", "l", "u", ".", "m", "a", "/",
       "c", "h", "e", "c", "k", "-", "i", "n", "/">>,
     <<"h", "t", "t", "p", "s", "%", "3", "A", "/", "/", "l", "u", ".", "m",
       "a", "/", "c", "h", "e", "c", "k", "-", "i", "n", "/">>,
     <<>>}
EventParts ==
    {<<"e", "v", "t", "-", "E">>, <<"e", "v", "t", "-">>, <<"E">>, <<>>,
     <<"e", "v", "t", "%", "2", "D", "E">>}
SeparatorParts ==
    {PkSep, <<>>, <<"%", "3", "F", "p", "k", "%", "3", "D">>}
ProxyParts ==
    {<<"g", "-", "K">>, <<"g", "-">>, <<"K">>, <<>>,
     <<"g", "-", "K", "?", "p", "k", "=", "g", "-", "Z">>,
     <<"g", "%", "2", "D", "K">>}

\* The texts a direct caller starts from.
QrTexts ==
    {p \o e \o s \o k : p \in PrefixParts, e \in EventParts,
                        s \in SeparatorParts, k \in ProxyParts}

\* The query parameters a direct caller appends, each after an "&".
ExtraParams ==
    {<<"e", "x", "t", "r", "a", "=", "1">>, <<"p", "k", "=", "g", "-", "Z">>}

\* How many parameters have been appended to the text.
Appended == Cardinality(Occurrences(parse_arg, Amp))

\* What a direct call returned: is_valid_luma_qr its verdict in ok,
\* extract_event_and_proxy_key its pair, (None, None) being ok = FALSE.
ParseRet(op, qr_data, ok, event_id, proxy_key) ==
    [op |-> op, qr_data |-> qr_data, ok |-> ok,
     event_id |-> event_id, proxy_key |-> proxy_key]

\* No direct call is made.
NoDirectCalls ==
    /\ parse_arg = NoneText
    /\ parse_rets = {}

\* A caller calls is_valid_luma_qr on its text; a call it has made is not
\* made again.
CallIsValid ==
    /\ parse_arg # NoneText
    /\ parse_rets' = parse_rets \cup
            {ParseRet("is_valid_luma_qr", parse_arg,
                      is_valid_luma_qr(parse_arg), <<>>, <<>>)}
    /\ parse_rets' # parse_rets
    /\ UNCHANGED <<flow_vars, scan_vars, parse_arg>>

\* A caller calls extract_event_and_proxy_key on its text.
CallExtract ==
    /\ parse_arg # NoneText
    /\ LET e == extract_event_and_proxy_key(parse_arg) IN
        parse_rets' = parse_rets \cup
            {ParseRet("extract_event_and_proxy_key", parse_arg,
                      e.ok, e.event_id, e.proxy_key)}
    /\ parse_rets' # parse_rets
    /\ UNCHANGED <<flow_vars, scan_vars, parse_arg>>

\* The caller goes on with its text followed by one more query parameter.
AppendParam ==
    /\ parse_arg # NoneText
    /\ Appended < MaxParams
    /\ \E q \in ExtraParams : parse_arg' = parse_arg \o Amp \o q
    /\ UNCHANGED <<flow_vars, scan_vars, parse_rets>>

(***************************************************************************)
(* Specifications                                                          *)
(***************************************************************************)

InitFlow ==
    /\ credentials_file \in InitialFiles
    /\ ClientInit
    /\ ScannerInit
    /\ NoDirectCalls

\* The check-in flow called by the one thread that runs the scan loop.
NextFlow ==
    \/ DirectCall("t1")
    \/ FlowStep("t1")
    \/ DirectReturn("t1")

SpecFlow == InitFlow /\ [][NextFlow]_vars

\* The remote service and the disk as the scan loop's specification has
\* them: the guest is found or the session has expired, the sign-in works
\* or is rejected, the disk works.
ScanGuestResponses ==
    {[kind |-> "http", status |-> 200, body |-> "guest_new"],
     [kind |-> "http", status |-> 401, body |-> "empty"]}
ScanSignInResponses ==
    {[kind |-> "http", status |-> 200, cookie |-> "k1"],
     [kind |-> "http", status |-> 401, cookie |-> ""]}

InitScan ==
    /\ credentials_file \in {JsonFile(required_fields, "k0"), AbsentFile}
    /\ ClientInit
    /\ ScannerInit
    /\ NoDirectCalls

\* The main thread runs start_scanning as main.py does; handle_qr_detection
\* runs the check-in flow inside the loop.
NextScan ==
    \/ CallStartScanning("t1")
    \/ InitOpen("t1")
    \/ InitCheck("t1")
    \/ InitTest("t1")
    \/ SetRunning("t1")
    \/ While("t1")
    \/ ReadFrame("t1", BOOLEAN, ScanFrames)
    \/ ProcessFrame("t1")
    \/ FlowHasValid("t1")
    \/ FlowCheckInCached("t1", ScanGuestResponses)
    \/ FlowAuthenticate("t1", ScanSignInResponses, {"ok"})
    \/ FlowCheckInRetry("t1", ScanGuestResponses)
    \/ CallbackReturn("t1")
    \/ Tick

SpecScan == InitScan /\ [][NextScan]_vars

\* The frames of the main program's specification: an empty frame, a frame
\* in which nothing is found, and a frame showing the Luma code A.
MainFrames ==
    {EmptyFrame,
     [size |-> 1, variants |-> <<[raises |-> FALSE, codes |-> <<>>]>>],
     [size |-> 1, variants |-> <<[raises |-> FALSE, codes |-> <<Code(LumaA)>>]>>]}

\* The credentials file holds a session key or cannot be parsed.
InitMain ==
    /\ credentials_file \in {JsonFile(required_fields, "k0"), UnreadableFile}
    /\ ClientInit
    /\ ScannerInit
    /\ NoDirectCalls

\* main.py, line 81: start calls start_scanning, once.
MainStart(t) ==
    /\ handles = 0
    /\ exc[t] = "none"
    /\ CallStartScanning(t)

\* The program as main.py runs it, in its main thread: start_scanning with
\* handle_qr_detection as the callback, ended by an exception, a signal or
\* Ctrl-C; the application may also call stop when start_scanning is not
\* running.
NextMain ==
    \/ MainStart("t1")
    \/ InitOpen("t1")
    \/ InitCheck("t1")
    \/ InitTest("t1")
    \/ SetRunning("t1")
    \/ While("t1")
    \/ ReadFrame("t1", BOOLEAN, MainFrames)
    \/ ProcessFrame("t1")
    \/ FlowHasValid("t1")
    \/ FlowCheckInCached("t1", ScanGuestResponses)
    \/ FlowAuthenticate("t1", ScanSignInResponses, {"ok"})
    \/ FlowCheckInRetry("t1", ScanGuestResponses)
    \/ CallbackReturn("t1")
    \/ Finally("t1")
    \/ CallStop("t1")
    \/ StopFlag("t1")
    \/ StopCheck("t1")
    \/ StopRelease("t1")
    \/ StopClear("t1")
    \/ Signal("t1")
    \/ KeyboardInterrupt("t1")
    \/ Tick

SpecMain == InitMain /\ [][NextMain]_vars

InitThreads ==
    /\ credentials_file = JsonFile(required_fields, "k0")
    /\ ClientInit
    /\ ScannerInit
    /\ NoDirectCalls

\* Any thread at a position of start_scanning or stop_scanning takes its
\* next step; in this specification the camera delivers no frame.
ScannerStep(t) ==
    \/ InitOpen(t)
    \/ InitCheck(t)
    \/ InitTest(t)
    \/ SetRunning(t)
    \/ While(t)
    \/ ReadFrame(t, {FALSE}, {})
    \/ Finally(t)
    \/ StopFlag(t)
    \/ StopCheck(t)
    \/ StopRelease(t)
    \/ StopClear(t)

\* The application threads call start_scanning, start_scanning_async and
\* stop_scanning in any order, and every thread runs at its own pace.
NextThreads ==
    \E t \in Threads :
        \/ CallStartScanning(t)
        \/ CallStartAsync(t)
        \/ CallStop(t)
        \/ AsyncCheck(t)
        \/ AsyncCreate(t)
        \/ AsyncStart(t)
        \/ ScannerStep(t)

SpecThreads == InitThreads /\ [][NextThreads]_vars

\* SpecThreads with the scheduling every thread gets: a thread that is
\* inside start_scanning, stop_scanning or start_scanning_async is not
\* suspended for ever. No call is ever forced to be made.
FairThreads ==
    \A t \in Threads :
        WF_vars(ScannerStep(t) \/ AsyncCheck(t) \/ AsyncCreate(t) \/ AsyncStart(t))

SpecThreadsFair == SpecThreads /\ FairThreads

\* The frames of the two-worker specification: one Luma code in view.
WorkerFrames ==
    {[size |-> 1, variants |-> <<[raises |-> FALSE, codes |-> <<Code(q)>>]>>] :
        q \in {LumaA, LumaB}}

\* In the two-worker specification a worker reads at most MaxWorkerFrames
\* frames.
MaxWorkerFrames == 3

\* One step of a worker: start_scanning with handle_qr_detection as the
\* callback. The camera delivers a frame at every read and no time passes.
WorkerStep(t) ==
    \/ InitOpen(t)
    \/ InitCheck(t)
    \/ InitTest(t)
    \/ SetRunning(t)
    \/ While(t)
    \/ frame_count[t] < MaxWorkerFrames /\ ReadFrame(t, {TRUE}, WorkerFrames)
    \/ ProcessFrame(t)
    \/ FlowHasValid(t)
    \/ FlowCheckInCached(t, ScanGuestResponses)
    \/ FlowAuthenticate(t, ScanSignInResponses, {"ok"})
    \/ FlowCheckInRetry(t, ScanGuestResponses)
    \/ CallbackReturn(t)

\* Two application threads call start_scanning on the one QRScanner, the
\* second while the first is scanning or before; every worker hands what
\* it scans to the same handle_qr_detection, LumaClient and credentials
\* file.
NextWorkers ==
    \E t \in AppThreads :
        \/ CallStartScanning(t)
        \/ WorkerStep(t)

SpecWorkers == InitThreads /\ [][NextWorkers]_vars

\* A caller hands a text to the two parsing methods directly, in any order,
\* and again after appending query parameters; nothing else runs.
InitParse ==
    /\ credentials_file = AbsentFile
    /\ ClientInit
    /\ ScannerInit
    /\ parse_arg \in QrTexts
    /\ parse_rets = {}

NextParse ==
    \/ CallIsValid
    \/ CallExtract
    \/ AppendParam

SpecParse == InitParse /\ [][NextParse]_vars

(***************************************************************************)
(* Properties of the check-in flow, stated on the history of the flow that *)
(* thread t1 runs.                                                         *)
(***************************************************************************)

H == calls["t1"]

\* The positions of the history holding operation op.
At(op) == {i \in 1..Len(H) : H[i].op = op}

\* How often op appears in the history.
Count(op) == Cardinality(At(op))

\* The flow has ended (its caller may already have taken the result).
Ended == flow_pc["t1"] \in {"done", "idle"}

\* The flow found a complete credential with a usable session key.
CredentialStored ==
    /\ Len(H) >= 1
    /\ H[1].op = "has_valid_credentials"
    /\ H[1].ok
    /\ H[1].key # ""

\* The flow found no credential file.
NoCredentialStored ==
    /\ Len(H) >= 1
    /\ H[1].op = "has_valid_credentials"
    /\ H[1].detail = "absent"

\* The first check-in sent its request, which is then entry 2.
FirstRequestSent == Len(H) >= 2 /\ H[2].op = "get_guest"

\* A get-guest answer that is a transport error: a network exception, a
\* non-2xx status other than 401 and 404, or a body that does not parse.
IsTransportError(e) ==
    \/ e.detail = "network_error"
    \/ /\ e.detail # "network_error"
       /\ e.status \notin {401, 404}
       /\ (raise_for_status(e.status) \/ ~body_parses(e.detail))

\* C1 (as claimed): with a stored credential and a first check-in answered
\* 404, the flow never calls authenticate, sends no sign-in request, makes
\* no second check-in, and ends with failure.
C1_NoReauthAfterGuestNotFound ==
    (CredentialStored /\ FirstRequestSent /\ H[2].status = 404) =>
        /\ Count("authenticate") = 0
        /\ Count("sign_in") = 0
        /\ Count("check_in_to_event") = 1
        /\ (Ended => flow_result["t1"] = "False")

\* The case of C2: stored credential, first check-in answered 401, a
\* successful authenticate, and a check-in after it that succeeded.
C2_Case ==
    /\ CredentialStored
    /\ FirstRequestSent
    /\ H[2].status = 401
    /\ \E i \in At("authenticate") :
            /\ H[i].ok
            /\ \E j \in At("check_in_to_event") : j > i /\ H[j].ok

\* C2: in that case the flow has returned success and authenticate was
\* called exactly once.
C2_ReauthOnceThenSuccess ==
    C2_Case =>
        /\ Ended
        /\ flow_result["t1"] = "True"
        /\ Count("authenticate") = 1

\* Witness of C2: the flow is done after 401, re-authentication and a
\* successful retry.
C2_Witness == C2_Case /\ flow_pc["t1"] = "done"

\* A check-in made after a successful authenticate has failed.
RetryFailed ==
    \E i \in At("authenticate"), j \in At("check_in_to_event") :
        H[i].ok /\ j > i /\ ~H[j].ok

\* C3, the state part: at most one authenticate (and sign-in request), at
\* most two check-ins (and guest lookups); a running flow can always take
\* its next step and a finished one has a result; a failed retry is the
\* last thing the flow did and its failure is what the flow returns.
C3_Bounded ==
    /\ Count("authenticate") <= 1
    /\ Count("sign_in") <= 1
    /\ Count("check_in_to_event") <= 2
    /\ Count("get_guest") <= 2
    /\ (flow_pc["t1"] \notin {"idle", "done"} => ENABLED FlowStep("t1"))
    /\ (flow_pc["t1"] = "done" => flow_result["t1"] # "none")
    /\ (RetryFailed =>
            /\ Ended
            /\ flow_result["t1"] = "False"
            /\ H[Len(H)].op = "check_in_to_event"
            /\ ~H[Len(H)].ok)

\* C3, the step part: whatever the remote service answers, a flow ends
\* with a boolean; the only other ending is the exception of
\* has_valid_credentials on an unreadable credentials file, which is no
\* behaviour of the remote service.
C3_ResultStep ==
    (flow_result["t1"]' \notin {"True", "False"} /\ flow_pc["t1"]' = "done") =>
        /\ flow_pc["t1"] = "entry"
        /\ credentials_file.state = "unreadable"

C4_AuthenticateFirst ==
    NoCredentialStored =>
        /\ \A j \in At("check_in_to_event") : \E i \in At("authenticate") : i < j
        /\ \A j \in At("get_guest") : \E i \in At("sign_in") : i < j

\* Witness of C4: without a stored credential the flow has authenticated
\* and then sent a guest lookup.
C4_Witness == NoCredentialStored /\ Count("get_guest") = 1

\* authenticate has failed in the current flow.
AuthenticateFailed == \E i \in At("authenticate") : ~H[i].ok

\* C5: a failed authenticate is the last call of the flow: no check-in
\* follows it, there is no second authenticate, and the flow reports
\* failure.
C5_AuthFailureIsFinal ==
    AuthenticateFailed =>
        /\ H[Len(H)].op = "authenticate"
        /\ Count("authenticate") = 1
        /\ Ended
        /\ flow_result["t1"] = "False"

\* Witness of C5: the flow is done after a sign-in whose answer carried no
\* session cookie.
C5_Witness ==
    /\ AuthenticateFailed
    /\ flow_pc["t1"] = "done"
    /\ H[Len(H) - 1].op = "sign_in"
    /\ H[Len(H) - 1].ok
    /\ H[Len(H)].key = ""

\* C6 (as claimed): with a stored credential and a first check-in that ends
\* in a transport error, the flow is over: no authenticate, no sign-in
\* request, no second check-in, and the result is failure.
C6_TransportErrorIsTerminal ==
    (CredentialStored /\ FirstRequestSent /\ IsTransportError(H[2])) =>
        /\ Count("authenticate") = 0
        /\ Count("sign_in") = 0
        /\ Count("check_in_to_event") = 1
        /\ (Ended => flow_result["t1"] = "False")

(***************************************************************************)
(* Claims about the scan loop (SpecScan)                                   *)
(***************************************************************************)

\* The step in which thread t hands a payload to qr_callback.
Invokes(t) == pc[t] = "process" /\ pc'[t] = "in_callback"

\* C7's step: a callback with payload p comes no sooner than the duplicate
\* window after the previous callback with p.
C7_Step ==
    \A t \in Threads :
        Invokes(t) =>
            LET p == cb_args'[t].qr_data IN
                \/ last_callback[p] = -1
                \/ clock - last_callback[p] >= DuplicateThreshold

\* C7: for every payload p and every sequence of frames, other codes shown
\* alongside or between detections of p included, the scan loop invokes the
\* callback with p at most once within any interval shorter than the
\* duplicate window.
C7_AtMostOncePerWindow == [][C7_Step]_vars

\* Frame f shows the text q and nothing else: every variant that decodes
\* anything decodes q, and one of them does.
ShowsOnly(f, q) ==
    /\ f.size > 0
    /\ \E i \in 1..Len(f.variants) :
        ~f.variants[i].raises /\ f.variants[i].codes = <<Code(q)>>
    /\ \A i \in 1..Len(f.variants) :
        \/ f.variants[i].raises
        \/ f.variants[i].codes \in {<<>>, <<Code(q)>>}

\* The scan of thread t's frame is a second detection in succession of the
\* valid text q, whose emission was at last_detection_time.
C8_Case(t, q) ==
    /\ pc[t] = "process"
    /\ ShowsOnly(frame[t], q)
    /\ last_detected_qr = q
    /\ last_callback[q] = last_detection_time

\* C8's step: inside the window nothing is returned and the window is left
\* as it is; at or after the window's end q is emitted and a new window
\* begins.
C8_Step ==
    \A t \in Threads : \A q \in ValidLuma :
        C8_Case(t, q) /\ pc'[t] # "process" =>
            IF clock - last_detection_time < DuplicateThreshold
            THEN /\ pc'[t] = "while"
                 /\ last_detected_qr' = q
                 /\ last_detection_time' = last_detection_time
                 /\ last_callback' = last_callback
                 /\ cb_args' = cb_args
            ELSE /\ pc'[t] = "in_callback"
                 /\ cb_args'[t].qr_data = q
                 /\ last_detected_qr' = q
                 /\ last_detection_time' = clock
                 /\ last_callback'[q] = clock

\* C8: when scan_qr_code detects the same valid text twice in succession,
\* the second detection is suppressed if it comes less than
\* duplicate_threshold after the emission, and is emitted once a detection
\* comes at or after duplicate_threshold since that emission; a suppressed
\* detection does not extend the window.
C8_SuppressThenEmitAgain == [][C8_Step]_vars

\* C8's case at the end of the window: the text that was emitted at
\* last_detection_time is about to be scanned again exactly
\* duplicate_threshold later.
C8_Witness ==
    /\ C8_Case("t1", LumaA)
    /\ cb_args["t1"].qr_data = LumaA
    /\ clock - last_detection_time = DuplicateThreshold

(***************************************************************************)
(* Claims about starting and stopping (SpecThreads)                        *)
(***************************************************************************)

\* The threads inside the scan loop of start_scanning.
LoopWorkers ==
    {t \in Threads : pc[t] \in {"while", "read", "process", "in_callback"}}

\* C9's step: while the scanner is running (is_running set, a worker in
\* the loop), no step of any thread opens a camera or brings a second
\* worker into the loop.
C9_Step ==
    is_running /\ LoopWorkers # {} =>
        /\ handles' = handles
        /\ camera' = camera \/ camera' = 0
        /\ Cardinality(LoopWorkers') <= 1

\* C9: a second start issued while the scanner is running is a no-op: never
\* do two scan-loop workers run on the same QRScanner, and the camera is not
\* opened again.
C9_SecondStartIsNoOp == [][C9_Step]_vars

\* The scanner was started once: there is one worker, and every other
\* thread only stops.
OneStart == Starts <= 1

\* C10's step: while the one scan worker is in its loop, no step of any
\* thread raises (the exceptions here come from self.camera being None),
\* and when every thread has returned after the loop ran, the scanner is
\* stopped with the camera released.
C10_Step ==
    /\ OneStart /\ LoopWorkers # {} => exc' = exc
    /\ (/\ OneStart'
        /\ \E w \in Threads : loop_entered'[w]
        /\ \A t \in Threads : pc'[t] = "idle")
       => /\ ~is_running'
          /\ camera' = 0
          /\ \A h \in Handles : ~opened'[h]

\* C10: stop_scanning called from another thread while the scan worker is
\* running is safe: in every interleaving no thread operates on a camera
\* that another has cleared, no exception arises in either thread, and the
\* scanner ends stopped with the camera released.
C10_StopIsSafe == [][C10_Step]_vars

\* A stop is under way in one thread while the one start that was invoked
\* has not returned in another.
StopDuringStart ==
    /\ OneStart
    /\ \E t, w \in Threads :
        /\ t # w
        /\ pc[t] \in StopPcs
        /\ pc[w] \in StartPcs

\* No thread is inside start_scanning any more and the scanner is stopped,
\* with no camera if the scan loop ran (a start that fails in
\* initialize_camera is left aside here).
ScannerStopped ==
    /\ \A t \in Threads : pc[t] \notin StartPcs
    /\ ~is_running
    /\ (\E w \in Threads : loop_entered[w]) => camera = 0

\* C11: once stop_scanning has been called at any moment after a start was
\* invoked, the initialisation of the camera included, the scan loop
\* eventually sees the cleared flag and exits: the scanner ends with
\* is_running false and the camera released (unless it is started again).
C11_StopIsNeverLost == StopDuringStart ~> (ScannerStopped \/ ~OneStart)

(***************************************************************************)
(* Claims about the main program's run (SpecMain), where every call of     *)
(* stop_scanning is made by the one thread, one after the other.           *)
(***************************************************************************)

\* C12's step: a call of stop_scanning that returns has raised nothing and
\* leaves is_running false, self.camera None and no VideoCapture open.
C12_Step ==
    \A t \in Threads :
        pc[t] \in StopPcs /\ pc'[t] \notin StopPcs =>
            /\ exc'[t] # "AttributeError_uncaught"
            /\ ~is_running'
            /\ camera' = 0
            /\ \A h \in Handles : ~opened'[h]

\* C12: stop_scanning is idempotent when called sequentially: called twice
\* in a row in any state (never started, running, already stopped) it
\* raises no error, and after each call is_running is false and the camera
\* is released (camera is None).
C12_StopIsIdempotent == [][C12_Step]_vars

\* C12's case: the scan loop was running when the signal handler called
\* stop_scanning; the finally clause now makes the second call, with the
\* camera already None.
C12_Witness ==
    /\ loop_entered["t1"]
    /\ exc["t1"] = "SystemExit"
    /\ pc["t1"] = "stop_check"
    /\ camera = 0
    /\ ~is_running

\* What a signal or Ctrl-C leaves in exc.
Interrupts ==
    {"SystemExit", "SystemExit_in_try",
     "KeyboardInterrupt_caught", "KeyboardInterrupt_uncaught"}

\* The step in which thread t's callback comes back to the scan loop after
\* a check-in flow that did not succeed (no signal or Ctrl-C arriving).
FailedCallbackEnds(t) ==
    /\ pc[t] = "in_callback"
    /\ flow_pc[t] = "done"
    /\ flow_result[t] \in {"False", "raised"}
    /\ pc'[t] # "in_callback"
    /\ exc'[t] \notin Interrupts

\* C13's step: after a failed check-in the loop goes on to its next
\* iteration, and the running flag is as it was.
C13_Step ==
    \A t \in Threads :
        FailedCallbackEnds(t) => pc'[t] = "while" /\ is_running' = is_running

\* C13: after the callback's check-in flow fails for any reason (401, 404,
\* transport error, sign-in failure, an unreadable or corrupt credentials
\* file) the scan loop remains running and goes on reading and processing
\* frames; a failed check-in never stops scanning.
C13_FailedCheckInKeepsScanning == [][C13_Step]_vars

(***************************************************************************)
(* Further claims about the LumaClient (SpecFlow)                          *)
(***************************************************************************)

\* C14: none of authenticate, check_in_to_event and handle_check_in_flow
\* propagates an exception to its caller, whatever the remote service does
\* and whatever the state of the credentials file: a call that has ended
\* has returned a boolean.
C14_NoExceptionPropagates ==
    /\ flow_result["t1"] \in {"none", "True", "False"}
    /\ flow_pc["t1"] = "done" => flow_result["t1"] \in {"True", "False"}

\* The session key the credentials file holds, "" when it holds none.
StoredKey ==
    IF credentials_file.state = "json" THEN credentials_file.auth_session_key
    ELSE ""

\* C15's step, for a step in which thread t1 completes a check_in_to_event
\* call: without a stored key nothing was sent and the call failed; with
\* one, the request presented it and the call succeeded exactly when the
\* status was 2xx and the body parseable.
C15_Step ==
    LET h == calls'["t1"]
        n == Len(h) - Len(H)
        e == h[Len(h)]
        g == h[Len(h) - 1]
    IN  n > 0 /\ e.op = "check_in_to_event" =>
            IF StoredKey = ""
            THEN n = 1 /\ ~e.ok
            ELSE /\ n = 2
                 /\ g.op = "get_guest"
                 /\ g.key = StoredKey
                 /\ e.ok <=> /\ g.status \in 200..299
                             /\ g.detail \in {"guest_new", "guest_checked_in"}

\* C15: check_in_to_event reports success if and only if a session key is
\* stored, the guest-lookup response has a 2xx status and its body is
\* parseable; 401, 404, any other non-2xx status, an empty or unparseable
\* body and a network exception each report failure, and with no stored
\* session key it reports failure without sending any request.
C15_SuccessIffFound == [][C15_Step]_vars

\* What check_in_to_event returns to its caller for a 200 answer with the
\* given body, the credentials file being as it is.
ResultFor200(body) ==
    check_in_to_event(credentials_file,
                      [kind |-> "http", status |-> 200, body |-> body]).ok

\* C16's step, for a step in which thread t1 completes a check_in_to_event
\* call answered by 200 with a guest: the result returned when
\* guest.last_checked_in_at is present differs from the one returned when
\* it is absent.
C16_Step ==
    LET h == calls'["t1"]
        e == h[Len(h)]
        g == h[Len(h) - 1]
    IN  (/\ Len(h) > Len(H)
         /\ e.op = "check_in_to_event"
         /\ e.ok
         /\ g.status = 200
         /\ g.detail \in {"guest_new", "guest_checked_in"})
        => ResultFor200("guest_checked_in") # ResultFor200("guest_new")

\* C16: when the guest lookup answers 200 with guest.last_checked_in_at
\* present, the check-in yields success with alreadyCheckedIn = true, and
\* with the field absent success with alreadyCheckedIn = false: the result
\* returned to the caller distinguishes the two cases.
C16_ResultTellsAlreadyCheckedIn == [][C16_Step]_vars

\* C17's step: an authenticate call that fails has not raised and leaves
\* the credentials file exactly as it was; the file changes only in a
\* successful authenticate, and it is never deleted.
C17_Step ==
    LET h == calls'["t1"]
        e == h[Len(h)]
        authenticated == Len(h) > Len(H) /\ e.op = "authenticate"
    IN  /\ authenticated /\ ~e.ok =>
            /\ credentials_file' = credentials_file
            /\ flow_result'["t1"] = "False"
        /\ credentials_file' # credentials_file => authenticated /\ e.ok
        /\ credentials_file.state # "absent" => credentials_file'.state # "absent"

\* C17: authenticate returns failure, without raising, when the sign-in
\* request fails or the response carries no extractable session token, and
\* in every failing case the credential store is left exactly as it was;
\* only a successful authenticate overwrites the stored credential, and no
\* operation of the client or of the flow ever deletes it.
C17_FailureLeavesStore == [][C17_Step]_vars

(***************************************************************************)
(* Claims about a start that fails (SpecScan)                              *)
(***************************************************************************)

\* C18's step: a start_scanning whose camera did not open returns from the
\* check of initialize_camera, and whatever ends a start_scanning before
\* the loop leaves the running flag, the exceptions, the frame counter,
\* the duplicate state and the callback's record untouched.
C18_Step ==
    \A t \in Threads :
        /\ (/\ pc[t] = "init_check"
            /\ pc'[t] # "init_check"
            /\ (camera = 0 \/ ~opened[camera]))
           => pc'[t] = "idle"
        /\ pc[t] \in {"init_check", "init_test"} /\ pc'[t] = "idle" =>
            UNCHANGED <<is_running, exc, frame_count, last_detected_qr,
                        last_detection_time, cb_args, last_callback, flow_vars>>

\* As long as no start_scanning has reached the loop the scanner is stopped:
\* is_running is false, no frame was read or decoded, no callback was made,
\* nothing was raised; and the loop is reached only with an open camera.
C18_Stopped ==
    /\ ~loop_entered["t1"] =>
        /\ ~is_running
        /\ exc["t1"] = "none"
        /\ frame_count["t1"] = 0
        /\ frame["t1"] = NoFrame
        /\ last_detected_qr = NoneText
        /\ cb_args["t1"] = NoArgs
        /\ \A p \in Payloads : last_callback[p] = -1
        /\ flow_pc["t1"] = "idle"
    /\ pc["t1"] = "set_running" => camera # 0 /\ opened[camera]

\* C18: if start_scanning cannot open the camera on any backend (or the
\* test frame capture fails), the scanner stays stopped: is_running is
\* never set to true, no frame is decoded, the callback is never invoked,
\* and the call returns without raising.
C18_FailedStartStaysStopped == []C18_Stopped /\ [][C18_Step]_vars

\* C18's case: start_scanning has returned with a camera that no backend
\* could open.
C18_Witness ==
    /\ pc["t1"] = "idle"
    /\ camera # 0
    /\ ~opened[camera]
    /\ ~loop_entered["t1"]

(***************************************************************************)
(* Claims about the end of the scan loop (SpecMain)                        *)
(***************************************************************************)

\* C19's step: a thread leaves the try block of start_scanning only for
\* the finally clause (a signal's handler calling stop_scanning first), and
\* the finally clause only for stop_scanning.
C19_Step ==
    \A t \in Threads :
        /\ pc[t] \in TryPcs /\ pc'[t] \notin TryPcs =>
            \/ pc'[t] = "finally"
            \/ pc'[t] = "stop_flag" /\ exc'[t] = "SystemExit_in_try"
        /\ pc[t] = "finally" /\ pc'[t] # "finally" => pc'[t] = "stop_flag"

\* When a start_scanning that reached the loop is over, the scanner is
\* stopped and holds no camera.
C19_Ended ==
    \A t \in Threads :
        loop_entered[t] /\ pc[t] = "idle" =>
            /\ ~is_running
            /\ camera = 0
            /\ \A h \in Handles : ~opened[h]

\* C19: whenever the scan loop exits, because stop was requested, because
\* the callback or the decoder raised, or because a keyboard interrupt
\* arrived, stop_scanning runs on the way out, so that the scanner ends
\* with is_running false and the camera released.
C19_StopRunsOnExit == []C19_Ended /\ [][C19_Step]_vars

\* C19's case: the callback raised, the loop ended through the finally
\* clause and start_scanning has returned.
C19_Witness ==
    /\ loop_entered["t1"]
    /\ pc["t1"] = "idle"
    /\ exc["t1"] = "ValueError_caught"
    /\ cb_args["t1"] # NoArgs

(***************************************************************************)
(* Claims about the workers' callbacks (SpecWorkers)                       *)
(***************************************************************************)

\* The threads that are executing handle_check_in_flow.
InFlow ==
    {t \in Threads :
        flow_pc[t] \in {"entry", "check_in_cached", "authenticate", "check_in_retry"}}

\* C20: check-in attempts are serialized: at every moment at most one
\* handle_check_in_flow is executing on the shared LumaClient and
\* credentials file, for every sequence of start, start-async and stop
\* calls on the scanner.
C20_CheckInsAreSerialized == Cardinality(InFlow) <= 1

(***************************************************************************)
(* Claims about decoding and parsing                                       *)
(***************************************************************************)

\* The variants of frame f in which pyzbar.decode detects something.
Detecting(f) ==
    {i \in 1..Len(f.variants) :
        ~f.variants[i].raises /\ f.variants[i].codes # <<>>}

\* C21's step: the scan of a frame with a detecting variant ends as the
\* symbols of the first such variant alone decide.
C21_Step ==
    \A t \in Threads :
        (/\ pc[t] = "process" /\ pc'[t] # "process"
         /\ frame[t].size > 0 /\ Detecting(frame[t]) # {}) =>
            LET i == Least(Detecting(frame[t]))
                r == scan_codes(frame[t].variants[i].codes, 1,
                                last_detected_qr, last_detection_time, clock)
            IN  /\ last_detected_qr' = r.last_qr
                /\ last_detection_time' = r.last_time
                /\ (pc'[t] = "in_callback") = r.found
                /\ r.found => cb_args'[t].qr_data = r.qr_data

\* C21: scan_qr_code runs the decoder on the variants in order and the
\* outcome for the frame is decided by the first variant that yields any
\* detection; the variants after it contribute nothing, even when every
\* detection of that first variant is suppressed as a duplicate or rejected
\* as non-Luma.
C21_FirstDetectingVariantDecides == [][C21_Step]_vars

\* What the direct calls of method op have returned.
Returned(op) == {r \in parse_rets : r.op = op}

\* The texts is_valid_luma_qr has accepted.
Accepted == {r.qr_data : r \in {v \in Returned("is_valid_luma_qr") : v.ok}}

\* C22: for every text accepted by is_valid_luma_qr,
\* extract_event_and_proxy_key returns a pair and never (None, None), the
\* event id non-empty and starting with "evt-", the proxy key non-empty and
\* starting with "g-"; these are the arguments every callback invocation of
\* the scan loop receives with the accepted text.
C22_AcceptedTextParses ==
    \A r \in Returned("extract_event_and_proxy_key") :
        r.qr_data \in Accepted =>
            /\ r.ok
            /\ r.event_id # <<>> /\ StartsWith(r.event_id, EvtPrefix)
            /\ r.proxy_key # <<>> /\ StartsWith(r.proxy_key, GPrefix)

\* C22's case: a text with two "?pk=" has been accepted and parsed.
C22_Witness ==
    \E r \in Returned("extract_event_and_proxy_key") :
        /\ r.qr_data \in Accepted
        /\ Cardinality(Occurrences(r.qr_data, PkSep)) = 2
        /\ r.ok

\* C23: for every text that does not start with the configured URL prefix,
\* is_valid_luma_qr returns False and extract_event_and_proxy_key returns
\* (None, None); both return, neither raises.
C23_OtherPrefixIsRejected ==
    \A r \in parse_rets :
        ~StartsWith(r.qr_data, url_pattern) =>
            /\ ~r.ok
            /\ r.event_id = <<>>
            /\ r.proxy_key = <<>>

\* C23's case: both methods have returned for a text that has "?pk=" behind
\* another prefix of the same length or more.
C23_Witness ==
    \E v \in Returned("is_valid_luma_qr") :
    \E e \in Returned("extract_event_and_proxy_key") :
        /\ v.qr_data = e.qr_data
        /\ ~StartsWith(v.qr_data, url_pattern)
        /\ Contains(SubSeq(v.qr_data, Len(url_pattern) + 1, Len(v.qr_data)),
                    PkSep)

\* The text <prefix>evt-E?pk=g-K.
PlainText == url_pattern \o <<"e", "v", "t", "-", "E">> \o PkSep \o <<"g", "-", "K">>

\* Text longer is text shorter followed by "&" and further parameters.
Extends(longer, shorter) ==
    /\ Len(longer) > Len(shorter)
    /\ SubSeq(longer, 1, Len(shorter) + 1) = shorter \o Amp

\* C24: parsing <prefix>evt-E?pk=g-K yields the event id evt-E and the proxy
\* key g-K, and appending further "&"-separated query parameters to a valid
\* text leaves the validation verdict and the parsed pair as they were.
C24_ExtraParamsIgnored ==
    /\ \A r \in Returned("extract_event_and_proxy_key") :
        r.qr_data = PlainText =>
            /\ r.ok
            /\ r.event_id = <<"e", "v", "t", "-", "E">>
            /\ r.proxy_key = <<"g", "-", "K">>
    /\ \A r1, r2 \in parse_rets :
        (/\ r1.op = r2.op
         /\ r1.qr_data \in Accepted
         /\ Extends(r2.qr_data, r1.qr_data)) =>
            /\ r2.ok = r1.ok
            /\ r2.event_id = r1.event_id
            /\ r2.proxy_key = r1.proxy_key

\* C24's case: a valid text has been validated and parsed, and so has the
\* same text with a second pk parameter appended.
C24_Witness ==
    \E r1, r2 \in Returned("extract_event_and_proxy_key") :
        /\ r1.qr_data = PlainText
        /\ r2.qr_data = PlainText \o Amp \o <<"p", "k", "=", "g", "-", "Z">>
        /\ {r1.qr_data, r2.qr_data} \subseteq Accepted

\* The characters the percent-encoded triples of the texts stand for.
Unquoted ==
    [h \in {<<"2", "D">>, <<"2", "F">>, <<"3", "A">>, <<"3", "D">>, <<"3", "F">>} |->
        CASE h = <<"2", "D">> -> "-"
          [] h = <<"2", "F">> -> "/"
          [] h = <<"3", "A">> -> ":"
          [] h = <<"3", "D">> -> "="
          [] h = <<"3", "F">> -> "?"]

\* The percent-decoded form of text s, from its i-th character on.
RECURSIVE percent_decoded(_, _)
percent_decoded(s, i) ==
    IF i > Len(s) THEN <<>>
    ELSE IF /\ s[i] = "%"
            /\ i + 2 <= Len(s)
            /\ SubSeq(s, i + 1, i + 2) \in DOMAIN Unquoted
    THEN <<Unquoted[SubSeq(s, i + 1, i + 2)]>> \o percent_decoded(s, i + 3)
    ELSE <<s[i]>> \o percent_decoded(s, i + 1)

\* C25: a text whose percent-decoded form matches the check-in grammar is
\* accepted, and is parsed to the event id and the proxy key of its decoded
\* form: percent-encoded input is decoded before the prefix, "?pk=", "evt-"
\* and "g-" are looked for.
C25_PercentEncodedIsDecoded ==
    \A r \in parse_rets :
        LET decoded == percent_decoded(r.qr_data, 1) IN
        is_valid_luma_qr(decoded) =>
            /\ r.ok
            /\ r.op = "extract_event_and_proxy_key" =>
                LET e == extract_event_and_proxy_key(decoded) IN
                    r.event_id = e.event_id /\ r.proxy_key = e.proxy_key

(***************************************************************************)
(* Claims about the loop's reads (SpecMain, SpecScan)                      *)
(***************************************************************************)

\* The step in which thread t's camera.read() gives no frame: the thread
\* leaves the read with nothing counted and nothing raised.
FailedRead(t) ==
    /\ pc[t] = "read" /\ pc'[t] # "read"
    /\ camera # 0
    /\ frame_count'[t] = frame_count[t]
    /\ exc'[t] = exc[t]

\* C26's step: a failed read while running leads back to the loop condition
\* with the scanner running, nothing decoded and no callback made; and the
\* loop condition of a running scanner leads to the next read.
C26_Step ==
    \A t \in Threads :
        /\ (is_running /\ FailedRead(t)) =>
            /\ pc'[t] = "while"
            /\ is_running'
            /\ UNCHANGED <<last_detected_qr, last_detection_time, cb_args,
                           last_callback, flow_vars, camera, opened>>
        /\ (pc[t] = "while" /\ pc'[t] # "while" /\ is_running
                /\ exc'[t] = exc[t]) =>
            pc'[t] = "read"

\* C26: while running, a camera read that returns no frame never ends the
\* scan loop: the scanner stays running, neither the decoder nor the
\* callback is invoked for that read, and another read is attempted, however
\* many reads fail in a row, until stop is requested.
C26_FailedReadRetries == [][C26_Step]_vars

\* C26's case: the running loop, no frame counted yet, is at a read of its
\* open camera.
C26_Witness ==
    /\ pc["t1"] = "read"
    /\ is_running
    /\ camera # 0 /\ opened[camera]
    /\ frame_count["t1"] = 0

\* The step in which thread t's camera.read() gives a frame, which is
\* counted.
CountedRead(t) == pc[t] = "read" /\ frame_count'[t] # frame_count[t]

\* The step in which thread t is done with the frame it selected.
Processes(t) == pc[t] = "process" /\ pc'[t] # "process"

\* C27's step, as far as the counter goes: frame_count is set to 0 before
\* the loop and advanced by one by a read that gives a frame, and by nothing
\* else; the frame so counted is selected for the decoder when its ordinal
\* is a multiple of frame_skip + 1 and is skipped otherwise; nothing else is
\* selected.
C27_CounterStep ==
    \A t \in Threads :
        /\ CountedRead(t) =>
            /\ frame_count'[t] = frame_count[t] + 1
            /\ IF frame_count'[t] % (frame_skip + 1) = 0
               THEN pc'[t] = "process" /\ frame'[t] # NoFrame
               ELSE pc'[t] = "while" /\ frame'[t] = frame[t]
        /\ (pc'[t] = "process" /\ pc[t] # "process") => CountedRead(t)
        /\ (frame_count'[t] # frame_count[t] /\ ~CountedRead(t)) =>
            pc[t] = "set_running" /\ frame_count'[t] = 0

\* scan_qr_code is invoked on thread t's frame, which start_scanning does
\* only past the test of the frame's size (lines 312-317), and the step acts
\* on what it returns.
Decoded(t) ==
    LET r == scan_qr_code(frame[t], last_detected_qr,
                          last_detection_time, clock) IN
    /\ frame[t].size # 0
    /\ last_detected_qr' = r.last_qr
    /\ last_detection_time' = r.last_time
    /\ (pc'[t] = "in_callback") = r.found
    /\ r.found => cb_args'[t].qr_data = r.qr_data

\* The frame is dropped without the decoder.
Dropped(t) ==
    /\ pc'[t] = "while"
    /\ UNCHANGED <<last_detected_qr, last_detection_time, cb_args,
                   last_callback>>

\* C27 as stated: with frame_skip = N the scan loop invokes the decoder on
\* exactly those frames whose ordinal among the successfully read frames is
\* a multiple of N + 1; failed reads do not advance the frame counter.
C27_EveryNPlus1thIsDecoded ==
    [][C27_CounterStep /\ \A t \in Threads : Processes(t) => Decoded(t)]_vars

\* C27 amended: the decoder is invoked on exactly the non-empty frames among
\* those whose ordinal is a multiple of N + 1; an empty frame with such an
\* ordinal is counted and dropped without being decoded.
C27_Step ==
    /\ C27_CounterStep
    /\ \A t \in Threads :
        Processes(t) =>
            IF frame[t].size = 0 THEN Dropped(t) ELSE Decoded(t)

C27_NonEmptyEveryNPlus1thIsDecoded == [][C27_Step]_vars

\* C27's case: the callback is being made for the code decoded in the
\* frame with the ordinal 2 * (frame_skip + 1).
C27_Witness ==
    /\ pc["t1"] = "in_callback"
    /\ frame_count["t1"] = 2 * (frame_skip + 1)

(***************************************************************************)
(* Claims about the credential in the check-in flow (SpecFlow)             *)
(***************************************************************************)

\* The case of C28: the flow found a valid credential and its first
\* check-in, made with it, succeeded.
C28_Case ==
    /\ Len(H) >= 3
    /\ H[1].op = "has_valid_credentials" /\ H[1].ok
    /\ H[2].op = "get_guest"
    /\ H[3].op = "check_in_to_event" /\ H[3].ok

\* C28, the state part: in that case the flow has returned True after the
\* one request of that check-in, with no authenticate and no sign-in
\* request, and the file holds what it held when the flow began.
C28_Returned ==
    C28_Case =>
        /\ Ended
        /\ flow_result["t1"] = "True"
        /\ Len(H) = 3
        /\ Count("get_guest") = 1
        /\ Count("sign_in") = 0
        /\ Count("authenticate") = 0
        /\ H[2].key = H[1].key
        /\ credentials_file.auth_session_key = H[1].key
        /\ credentials_file.state = H[1].detail

\* C28, the step part: up to and including the cached check-in the flow
\* writes nothing to the credentials file.
C28_Step ==
    flow_pc["t1"] \in {"entry", "check_in_cached"} =>
        credentials_file' = credentials_file

\* C28: if the first check-in with the cached credential succeeds,
\* handle_check_in_flow returns success after exactly one remote request:
\* authenticate is not called, no sign-in request is sent, and the stored
\* credential is unchanged.
C28_CachedSuccessIsOneRequest == []C28_Returned /\ [][C28_Step]_vars

\* C28's case: the flow has returned after a successful cached check-in.
C28_Witness == C28_Case /\ flow_pc["t1"] = "done"

\* The successful authenticate calls of the flow.
Authenticated == {i \in At("authenticate") : H[i].ok}

\* C29: in a flow where authenticate succeeds, the credentials file holds
\* from then on exactly the session key extracted from the sign-in answer
\* (has_valid_credentials is true and get_auth_session_key returns that
\* key), and the check-in retried after it is sent with that key, never with
\* the key stored before (which the new key replaces also when the service
\* issues the same value again).
C29_RetryUsesNewKey ==
    \A i \in Authenticated :
        /\ H[i].key \in IssuedKeys
        /\ credentials_file = JsonFile(required_fields, H[i].key)
        /\ ~has_valid_credentials(credentials_file).raised
        /\ has_valid_credentials(credentials_file).value
        /\ ~get_auth_session_key(credentials_file).raised
        /\ get_auth_session_key(credentials_file).key = H[i].key
        /\ \A j \in At("check_in_to_event") :
            j > i => /\ H[j - 1].op = "get_guest"
                     /\ H[j - 1].key = H[i].key
                     /\ H[j].key = H[i].key
        /\ \A j \in At("get_guest") :
            j > i => H[j].key = H[i].key

\* C29's case: the first check-in was sent with the stored key k0, the
\* authenticate after it succeeded, and the retry has been made.
C29_Witness ==
    /\ Authenticated # {}
    /\ FirstRequestSent /\ H[2].key = "k0"
    /\ \E i \in Authenticated : \E j \in At("get_guest") :
            j > i /\ H[j].key # "k0"
    /\ flow_pc["t1"] = "done"

(***************************************************************************)
(* Claims about the camera handle (SpecMain)                               *)
(***************************************************************************)

\* C30: whenever start_scanning has returned, for whatever reason, a failed
\* camera initialisation included (no backend opened the device, or the test
\* frame could not be captured), the scanner holds no camera handle: camera
\* is None and every VideoCapture it opened has been released.
C30_NoCameraAfterStartReturns ==
    (pc["t1"] = "idle" /\ handles > 0) =>
        /\ camera = 0
        /\ \A h \in Handles : ~opened[h]

====
